---- MODULE Spec2Model ----
(***************************************************************************)
(* Model of the article curation pipeline of craigmmills/enviroagent:      *)
(* the scoring stage (src/src/rl_agent.py) and the summary stage           *)
(* (src/src/summary_agent.py), with the files they read and write.         *)
(*                                                                         *)
(* Strings are sequences of tokens.  A token is one character class or one *)
(* JSON lexeme, so that strip(), the fence test, the regular expression    *)
(* and json.loads are computed on the text, as the code computes them.     *)
(***************************************************************************)
EXTENDS Integers, Sequences, FiniteSets, TLC

(***************************************************************************)
(* Bounds of the model.                                                    *)
(***************************************************************************)
\* longest raw batch of the scoring stage
MaxArticles == 2
\* number of times run_simulation is invoked by one process
MaxRuns == 2
\* longest scored batch read by the summary stage
MaxScored == 4
\* longest scored batch of a summary run followed to its end
MaxSummaryIn == 2

\* the score a record needs to enter the summary, summary_agent.py line 65
Threshold == 7

(***************************************************************************)
(* Text of an evaluator answer.                                            *)
(***************************************************************************)
\* a whitespace character
WS == "ws"
\* a backtick
TICK == "bt"
\* a character that is neither whitespace, backtick, brace nor JSON
TXT == "w"
LBRACE == "{"
RBRACE == "}"
COMMA == ","
\* a JSON number standing alone, such as 42
NUM == "42"
\* what is left of a string lexeme that the regular expression cut in two
CUT == "cut"
LBRACKET == "["
RBRACKET == "]"
\* the article objects an array can hold: the first and the second record of
\* the collaborator's input, each with a link, and a record of its own making
ElemToks == {"a1", "a2", "ax"}

\* "tweet_worthiness": 9   and   "tweet_worthiness": 11
TwToks == {"tw9", "tw11"}
\* "summary": "ok"   and   "summary": "a}b" (a closing brace inside the string)
SmToks == {"smOk", "smBr"}
MemberToks == TwToks \cup SmToks

MemberKey(tok) == IF tok \in TwToks THEN "tweet_worthiness" ELSE "summary"

MemberVal(tok) ==
    CASE tok = "tw9" -> 9
      [] tok = "tw11" -> 11
      [] tok = "smOk" -> "ok"
      [] tok = "smBr" -> "a}b"

\* the token holds a "}" character
HasClose(tok) == tok \in {RBRACE, "smBr"}

\* the fallback verdict of rl_agent.py line 149
FallbackSummary == "Could not evaluate article."
\* the default of action.get("summary", ...) of rl_agent.py line 153
NoSummary == "No summary provided"

RECURSIVE LStrip(_, _)
LStrip(s, c) == IF s # <<>> /\ Head(s) = c THEN LStrip(Tail(s), c) ELSE s

RECURSIVE RStrip(_, _)
RStrip(s, c) ==
    IF s # <<>> /\ s[Len(s)] = c THEN RStrip(SubSeq(s, 1, Len(s) - 1), c) ELSE s

\* str.strip(chars) for a single character
StripChar(s, c) == RStrip(LStrip(s, c), c)

\* str.strip()
Strip(s) == StripChar(s, WS)

\* str.startswith of three backticks, line 136
StartsWithFence(s) == Len(s) >= 3 /\ s[1] = TICK /\ s[2] = TICK /\ s[3] = TICK

\* lines 136-137: remove the fence
Unfence(s) == IF StartsWithFence(s) THEN Strip(StripChar(s, TICK)) ELSE s

\* the same search made lazy: from the first opening brace to the first closing
\* brace after it
RegexObjectLazy(s) ==
    LET opens == {i \in 1..Len(s) : s[i] = LBRACE}
        first == CHOOSE i \in opens : \A k \in opens : i <= k
        closes == {j \in 1..Len(s) : HasClose(s[j]) /\ j > first}
        nearest == CHOOSE j \in closes : \A k \in closes : j <= k
    IN  IF opens = {} \/ closes = {}
        THEN [found |-> FALSE, group |-> <<>>]
        ELSE [found |-> TRUE,
              group |-> IF s[nearest] = RBRACE
                        THEN SubSeq(s, first, nearest)
                        ELSE Append(SubSeq(s, first, nearest - 1), CUT)]

\* re.search at line 140, greedy and DOTALL: from the first opening brace to
\* the last closing brace
RegexObject(s) ==
    LET opens == {i \in 1..Len(s) : s[i] = LBRACE}
        first == CHOOSE i \in opens : \A k \in opens : i <= k
        closes == {j \in 1..Len(s) : HasClose(s[j]) /\ j > first}
        last == CHOOSE j \in closes : \A k \in closes : j >= k
    IN  IF opens = {} \/ closes = {}
        THEN [found |-> FALSE, group |-> <<>>]
        ELSE [found |-> TRUE,
              group |-> IF s[last] = RBRACE
                        THEN SubSeq(s, first, last)
                        ELSE Append(SubSeq(s, first, last - 1), CUT)]

\* lines 140-144
Candidate(s) == IF RegexObject(s).found THEN RegexObject(s).group ELSE s

RECURSIVE NoWs(_)
NoWs(s) ==
    IF s = <<>> THEN <<>>
    ELSE IF Head(s) = WS THEN NoWs(Tail(s)) ELSE <<Head(s)>> \o NoWs(Tail(s))

\* members separated by commas, whitespace already removed
WellFormedMembers(m) ==
    \/ m = <<>>
    \/ /\ Len(m) % 2 = 1
       /\ \A i \in 1..Len(m) :
            IF i % 2 = 1 THEN m[i] \in MemberToks ELSE m[i] = COMMA

\* the dict of an object: a later member replaces an earlier one of the same key
RECURSIVE Members(_)
Members(m) ==
    IF m = <<>> THEN <<>>
    ELSE LET lst == m[Len(m)]
             rest == Members(SubSeq(m, 1, Len(m) - 1))
         IN  IF lst = COMMA THEN rest
             ELSE (MemberKey(lst) :> MemberVal(lst)) @@ rest

\* elements separated by commas, whitespace already removed
WellFormedElements(m) ==
    \/ m = <<>>
    \/ /\ Len(m) % 2 = 1
       /\ \A i \in 1..Len(m) :
            IF i % 2 = 1 THEN m[i] \in ElemToks ELSE m[i] = COMMA

\* the elements of an array, in order
Elements(m) == SelectSeq(m, LAMBDA tok : tok # COMMA)

JsonFail == [ok |-> FALSE, kind |-> "none", obj |-> <<>>, items |-> <<>>]

\* json.loads: a value between optional whitespace; an object, an array, a
\* number, or JSONDecodeError
JsonLoads(s) ==
    LET t == Strip(s)
    IN  IF t = <<NUM>>
        THEN [ok |-> TRUE, kind |-> "num", obj |-> <<>>, items |-> <<>>]
        ELSE IF Len(t) >= 2 /\ t[1] = LBRACE /\ t[Len(t)] = RBRACE
        THEN LET inner == NoWs(SubSeq(t, 2, Len(t) - 1))
             IN  IF WellFormedMembers(inner)
                 THEN [ok |-> TRUE, kind |-> "obj", obj |-> Members(inner),
                       items |-> <<>>]
                 ELSE JsonFail
        ELSE IF Len(t) >= 2 /\ t[1] = LBRACKET /\ t[Len(t)] = RBRACKET
        THEN LET inner == NoWs(SubSeq(t, 2, Len(t) - 1))
             IN  IF WellFormedElements(inner)
                 THEN [ok |-> TRUE, kind |-> "arr", obj |-> <<>>,
                       items |-> Elements(inner)]
                 ELSE JsonFail
        ELSE JsonFail

(***************************************************************************)
(* Records and files.  A record is a function from its keys to its values; *)
(* a key the dict does not hold is not in its DOMAIN.  A title is a        *)
(* sequence of characters.                                                 *)
(***************************************************************************)
\* dict.get(k, default)
Get(d, k, default) == IF k \in DOMAIN d THEN d[k] ELSE default

NoFile == [exists |-> FALSE, data |-> <<>>]
File(batch) == [exists |-> TRUE, data |-> batch]

RawTitles == {<<"F">>, <<"f">>}
\* the records the fetch stage can have saved
RawRecords == {[html |-> "h", title |-> t] : t \in RawTitles}

BatchesUpTo(recs, n) == UNION {[1..k -> recs] : k \in 0..n}

\* the title of each record, position by position
TitlesOf(batch) ==
    [i \in 1..Len(batch) |->
        IF "title" \in DOMAIN batch[i] THEN batch[i].title ELSE <<"missing">>]

(***************************************************************************)
(* The evaluator's answers (the result of chain.ainvoke, rl_agent.py line  *)
(* 87): text before the payload, the payload, text after it.               *)
(***************************************************************************)
\* what stands before and after the payload: nothing, whitespace, a code fence,
\* a code fence with a language tag, brace-free text
Wrappers ==
    { [pre |-> <<>>, post |-> <<>>],
      [pre |-> <<WS>>, post |-> <<WS>>],
      [pre |-> <<TICK, TICK, TICK>>, post |-> <<TICK, TICK, TICK>>],
      [pre |-> <<TICK, TICK, TICK, TXT, WS>>, post |-> <<WS, TICK, TICK, TICK>>],
      [pre |-> <<TXT, WS>>, post |-> <<WS, TXT>>] }

Payloads ==
    { <<LBRACE, "tw9", COMMA, WS, "smOk", RBRACE>>,
      <<LBRACE, "smBr", COMMA, "tw9", RBRACE>>,
      <<LBRACE, "tw11", COMMA, "smOk", RBRACE>>,
      <<LBRACE, "tw9", RBRACE>>,
      <<LBRACE, RBRACE>>,
      <<LBRACE, "tw9", COMMA, "smBr">>,
      <<LBRACE, "tw9", RBRACE, WS, LBRACE, "smOk", RBRACE>>,
      <<NUM>>,
      <<TXT, WS, TXT>>,
      <<>> }

AnswerTexts == {w.pre \o c \o w.post : w \in Wrappers, c \in Payloads}

NoResponse == [kind |-> "none", text |-> <<>>]

\* a str, a dict with a "text" key, a dict without one, any other object
\* (text is then its str())
Responses ==
    {[kind |-> "dict", text |-> t] : t \in AnswerTexts}
    \cup {[kind |-> "str", text |-> t] : t \in Payloads}
    \cup {[kind |-> "dictNoText", text |-> <<>>], [kind |-> "other", text |-> <<TXT>>]}

(***************************************************************************)
(* Decoding of one answer, rl_agent.py lines 123-149.                      *)
(***************************************************************************)
\* lines 124-131
ResponseStr(r) ==
    CASE r.kind = "str" -> r.text
      [] r.kind = "dict" -> r.text
      [] r.kind = "dictNoText" -> <<>>
      [] OTHER -> r.text

\* line 149
FallbackAction ==
    [kind |-> "obj",
     obj |-> ("tweet_worthiness" :> 0) @@ ("summary" :> FallbackSummary)]

\* lines 123-149: the value of action after the try statement
Decode(r) ==
    LET loaded == JsonLoads(Candidate(Unfence(Strip(ResponseStr(r)))))
    IN  IF loaded.ok THEN [kind |-> loaded.kind, obj |-> loaded.obj]
        ELSE FallbackAction

\* a merge that sets summary only when the verdict holds one
MergeNoDefault(article, obj) ==
    ("tweet_worthiness" :> Get(obj, "tweet_worthiness", 0))
        @@ (IF "summary" \in DOMAIN obj THEN "summary" :> obj["summary"] ELSE <<>>)
        @@ article

\* lines 152-153
Merge(article, obj) ==
    ("tweet_worthiness" :> Get(obj, "tweet_worthiness", 0))
        @@ ("summary" :> Get(obj, "summary", NoSummary))
        @@ article

\* the record put in front of the list
PrependScored(list, article) == <<article>> \o list

\* line 154
AppendScored(list, article) == Append(list, article)

(***************************************************************************)
(* State.                                                                  *)
(***************************************************************************)
Procs == {1, 2}

VARIABLES
    rawFile,          \* data/raw/gdelt_articles_<date>.json
    scoredFile,       \* data/scored/generated_scored_articles_<date>.json
    pc,               \* where each run_simulation is
    error,            \* the exception that ended the run, "" if none
    articles,         \* run_simulation's articles
    idx,              \* number of records the loop has finished
    scored_articles,  \* run_simulation's scored_articles
    response_text,    \* run_simulation's response_text
    evalCalls,        \* evaluator calls made by the current run
    runs,             \* number of runs started by the process
    startExists,      \* what os.path.exists(output_file) was at line 109
    startFile,        \* the scored file as it was at line 109
    promptUsed,       \* per run, the prompt text each evaluator call was given
    promptStart,      \* per run, the prompt text on disk when the run started
    sumPc,            \* where run_summary_agent is
    filtered,         \* run_summary_agent's filtered
    unique_articles,  \* run_summary_agent's unique_articles
    raw_response,     \* run_summary_agent's raw_response
    summary_articles, \* run_summary_agent's summary_articles, a JSON value
    summaryFile,      \* data/summary/summary_<date>.json
    daily_dir,        \* improve_prompt's daily_dir argument
    dailyFiles,       \* what os.listdir(daily_dir) holds, in its order
    processedFiles,   \* the files of processed_daily, in the order moved
    generatedFile,    \* the file at generated_json_path
    promptFile,       \* config/agent_prompt.txt
    updPc,            \* where improve_prompt is
    updArticles,      \* improve_prompt's articles
    updSource,        \* the branch that filled articles: "dir" or "file"
    human_scores,     \* improve_prompt's human_scores
    feedback_entries, \* improve_prompt's feedback_entries
    feedback_section, \* improve_prompt's feedback_section
    upd_response,     \* agent_improve_prompt's raw_response
    improved_prompt,  \* improve_prompt's improved_prompt
    promptBefore,     \* the prompt file when improve_prompt was called
    rewriteCalls,     \* number of calls of agent_improve_prompt
    promptWrites,     \* number of writes of the prompt file by improve_prompt
    updResult,        \* what improve_prompt returned
    archive_listing,  \* what os.listdir gave the archival loop
    renameFailed,     \* the positions of that listing whose os.rename raised
    revPc,            \* what the operator's browser shows
    revLoc,           \* the article_index of the page shown or asked for
    revLast,          \* the last request the review application served
    custom_params,    \* fetch_gdelt_articles' custom_params
    fetchParams,      \* the params of the request sent
    fetchPc,          \* where fetch_gdelt_articles is
    fetchRequests,    \* number of calls of requests.get
    fetchResponse,    \* what requests.get gave
    fetchResult       \* what fetch_gdelt_articles returned

sumVars == <<sumPc, filtered, unique_articles, raw_response, summary_articles,
             summaryFile>>

\* the variables of run_simulation
runVars == <<pc, error, articles, idx, scored_articles, response_text,
             evalCalls, runs, startExists, startFile, promptUsed, promptStart>>

\* the variables of improve_prompt and the files only it touches
updVars == <<daily_dir, dailyFiles, processedFiles, generatedFile, updPc,
             updArticles, updSource, human_scores, feedback_entries,
             feedback_section, upd_response, improved_prompt, promptBefore,
             rewriteCalls, promptWrites, updResult, archive_listing,
             renameFailed>>

\* the variables of the review pages
revVars == <<revPc, revLoc, revLast>>

\* the variables of fetch_gdelt_articles
fetchVars == <<custom_params, fetchParams, fetchPc, fetchRequests, fetchResponse,
              fetchResult>>

\* the variables of the other stages
restVars == <<updVars, revVars, fetchVars>>

vars == <<rawFile, scoredFile, promptFile, runVars, sumVars, restVars>>

\* a JSON array as a value
ArrayValue(items) == [kind |-> "arr", items |-> items, obj |-> <<>>]

NoValue == [kind |-> "none", items |-> <<>>, obj |-> <<>>]

NoValueFile == [exists |-> FALSE, data |-> NoValue]
ValueFile(value) == [exists |-> TRUE, data |-> value]

Finished == {"skipped", "empty", "done", "crashed"}

InitRun ==
    /\ pc = [p \in Procs |-> "idle"]
    /\ error = [p \in Procs |-> ""]
    /\ articles = [p \in Procs |-> <<>>]
    /\ idx = [p \in Procs |-> 0]
    /\ scored_articles = [p \in Procs |-> <<>>]
    /\ response_text = [p \in Procs |-> NoResponse]
    /\ evalCalls = [p \in Procs |-> 0]
    /\ runs = [p \in Procs |-> 0]
    /\ startExists = [p \in Procs |-> FALSE]
    /\ startFile = [p \in Procs |-> NoFile]
    /\ promptUsed = [p \in Procs |-> <<>>]
    /\ promptStart = [p \in Procs |-> <<>>]

\* the prompt file: its text is a sequence of tokens
NoPrompt == [exists |-> FALSE, text |-> <<>>]
PromptOf(text) == [exists |-> TRUE, text |-> text]

\* get_agent_prompt, rl_agent.py lines 55-75: the text of the file, or the
\* built-in text when there is no file
PromptText(file) == IF file.exists THEN file.text ELSE <<"default">>

\* a file that holds JSON records, or bytes json.load rejects
NoJsonFile == [exists |-> FALSE, ok |-> FALSE, data |-> <<>>]
JsonFile(batch) == [exists |-> TRUE, ok |-> TRUE, data |-> batch]
CorruptFile == [exists |-> TRUE, ok |-> FALSE, data |-> <<>>]

\* feedback_section before lines 87-91 build it
NoSection == [avg100 |-> 0, lines |-> <<>>]

\* improve_prompt not started, nothing for it on disk
InitUpdIdle ==
    /\ daily_dir = "None"
    /\ dailyFiles = <<>>
    /\ processedFiles = <<>>
    /\ generatedFile = NoJsonFile
    /\ updPc = "idle"
    /\ updArticles = <<>>
    /\ updSource = "none"
    /\ human_scores = <<>>
    /\ feedback_entries = <<>>
    /\ feedback_section = NoSection
    /\ upd_response = NoResponse
    /\ improved_prompt = <<>>
    /\ promptBefore = promptFile
    /\ rewriteCalls = 0
    /\ promptWrites = 0
    /\ updResult = "none"
    /\ archive_listing = <<>>
    /\ renameFailed = {}

\* a request to the review application: the route, the article_index and
\* the form that came with it
Request(kind, index, form) == [kind |-> kind, index |-> index, form |-> form]

NoForm == [action |-> "none"]

NoRequest == Request("none", 0, NoForm)

\* no review page opened
InitRevIdle ==
    /\ revPc = "closed"
    /\ revLoc = 0
    /\ revLast = NoRequest

NoFetchResponse == [kind |-> "none", body |-> <<>>]

\* custom_params: None or a mapping
NoParams == [given |-> FALSE, map |-> <<>>]
ParamsOf(map) == [given |-> TRUE, map |-> map]

\* fetch_gdelt_articles not called
InitFetchIdle ==
    /\ custom_params = NoParams
    /\ fetchParams = NoParams
    /\ fetchPc = "idle"
    /\ fetchRequests = 0
    /\ fetchResponse = NoFetchResponse
    /\ fetchResult = <<>>

InitRest == InitUpdIdle /\ InitRevIdle /\ InitFetchIdle

InitSummary ==
    /\ sumPc = "idle"
    /\ filtered = <<>>
    /\ unique_articles = <<>>
    /\ raw_response = NoResponse
    /\ summary_articles = NoValue
    /\ summaryFile = NoValueFile

Init ==
    /\ rawFile \in {File(b) : b \in BatchesUpTo(RawRecords, MaxArticles)} \cup {NoFile}
    /\ scoredFile = NoFile
    /\ promptFile = PromptOf(<<"p0">>)
    /\ InitRun
    /\ InitSummary
    /\ InitRest

(***************************************************************************)
(* run_simulation, rl_agent.py lines 92-167.                               *)
(***************************************************************************)
\* a guard that never finds the file
OutputExistsNever == FALSE

\* line 109
OutputExists == scoredFile.exists

\* lines 101-118: the guard, load_articles and the empty test
Start(p) ==
    /\ pc[p] \in {"idle"} \cup Finished
    /\ runs[p] < MaxRuns
    /\ runs' = [runs EXCEPT ![p] = @ + 1]
    /\ startExists' = [startExists EXCEPT ![p] = scoredFile.exists]
    /\ startFile' = [startFile EXCEPT ![p] = scoredFile]
    /\ evalCalls' = [evalCalls EXCEPT ![p] = 0]
    /\ idx' = [idx EXCEPT ![p] = 0]
    /\ scored_articles' = [scored_articles EXCEPT ![p] = <<>>]
    /\ response_text' = [response_text EXCEPT ![p] = NoResponse]
    /\ IF OutputExists
       THEN /\ pc' = [pc EXCEPT ![p] = "skipped"]
            /\ error' = [error EXCEPT ![p] = ""]
            /\ articles' = [articles EXCEPT ![p] = <<>>]
       ELSE IF ~rawFile.exists
       THEN /\ pc' = [pc EXCEPT ![p] = "crashed"]
            /\ error' = [error EXCEPT ![p] = "FileNotFoundError"]
            /\ articles' = [articles EXCEPT ![p] = <<>>]
       ELSE /\ pc' = [pc EXCEPT ![p] = IF rawFile.data = <<>> THEN "empty" ELSE "call"]
            /\ error' = [error EXCEPT ![p] = ""]
            /\ articles' = [articles EXCEPT ![p] = rawFile.data]
    /\ promptUsed' = [promptUsed EXCEPT ![p] = <<>>]
    /\ promptStart' = [promptStart EXCEPT ![p] = PromptText(promptFile)]
    /\ UNCHANGED <<sumVars, restVars, promptFile, rawFile, scoredFile>>

\* line 122, get_agent_action returns; the evaluator is free to answer
\* anything, whatever the state text of line 121
CallEvaluatorFrom(p, answers) ==
    /\ pc[p] = "call"
    /\ promptUsed' = [promptUsed EXCEPT ![p] = Append(@, PromptText(promptFile))]
    /\ \E r \in answers : response_text' = [response_text EXCEPT ![p] = r]
    /\ evalCalls' = [evalCalls EXCEPT ![p] = @ + 1]
    /\ pc' = [pc EXCEPT ![p] = "parse"]
    /\ UNCHANGED <<sumVars, restVars, promptFile, rawFile, scoredFile, error, articles, idx, scored_articles,
                   runs, startExists, startFile, promptStart>>

CallEvaluator(p) == CallEvaluatorFrom(p, Responses)

\* line 122, chain.ainvoke raises: the call is outside the try statement
EvaluatorRaises(p) ==
    /\ pc[p] = "call"
    /\ evalCalls' = [evalCalls EXCEPT ![p] = @ + 1]
    /\ pc' = [pc EXCEPT ![p] = "crashed"]
    /\ error' = [error EXCEPT ![p] = "EvaluatorError"]
    /\ promptUsed' = [promptUsed EXCEPT ![p] = Append(@, PromptText(promptFile))]
    /\ UNCHANGED <<sumVars, restVars, promptFile, rawFile, scoredFile, articles, idx, scored_articles,
                   response_text, runs, startExists, startFile, promptStart>>

\* lines 123-154 for articles[idx]; action.get raises AttributeError when
\* json.loads returned something that is not a dict
ParseMergeStep(p) ==
    /\ pc[p] = "parse"
    /\ LET action == Decode(response_text[p])
           article == articles[p][idx[p] + 1]
       IN  IF action.kind # "obj"
           THEN /\ pc' = [pc EXCEPT ![p] = "crashed"]
                /\ error' = [error EXCEPT ![p] = "AttributeError"]
                /\ UNCHANGED <<idx, scored_articles>>
           ELSE /\ scored_articles' =
                     [scored_articles EXCEPT
                        ![p] = AppendScored(@, Merge(article, action.obj))]
                /\ idx' = [idx EXCEPT ![p] = @ + 1]
                /\ pc' = [pc EXCEPT
                            ![p] = IF idx[p] + 1 < Len(articles[p])
                                   THEN "call" ELSE "write"]
                /\ UNCHANGED error
    /\ UNCHANGED <<sumVars, restVars, promptFile, rawFile, articles, response_text, evalCalls, runs,
                   startExists, startFile, promptUsed,
                   promptStart>>

\* the loop body saving the list after each record
ParseMergeEager(p) == ParseMergeStep(p) /\ scoredFile' = File(scored_articles'[p])

ParseMerge(p) == ParseMergeStep(p) /\ UNCHANGED scoredFile

\* lines 160-165
WriteScored(p) ==
    /\ pc[p] = "write"
    /\ scoredFile' = File(scored_articles[p])
    /\ pc' = [pc EXCEPT ![p] = "done"]
    /\ UNCHANGED <<sumVars, restVars, promptFile, rawFile, error, articles, idx, scored_articles,
                   response_text, evalCalls, runs, startExists, startFile, promptUsed,
                   promptStart>>

\* lines 166-167: makedirs or open raised, the error is logged
WriteFails(p) ==
    /\ pc[p] = "write"
    /\ pc' = [pc EXCEPT ![p] = "done"]
    /\ UNCHANGED <<sumVars, restVars, promptFile, rawFile, scoredFile, error, articles, idx, scored_articles,
                   response_text, evalCalls, runs, startExists, startFile, promptUsed,
                   promptStart>>

\* the scoring stage run by one process, one run after the other
Next ==
    \/ Start(1)
    \/ CallEvaluator(1)
    \/ EvaluatorRaises(1)
    \/ ParseMerge(1)
    \/ WriteScored(1)
    \/ WriteFails(1)

Spec == Init /\ [][Next]_vars

(***************************************************************************)
(* The summary stage, summary_agent.py.                                    *)
(***************************************************************************)
\* str.lower() of one character
LowerChar(c) == IF c = "F" THEN "f" ELSE c

\* str.lower()
Lower(s) == [i \in 1..Len(s) |-> LowerChar(s[i])]

\* line 33: article.get("title", "").strip().lower()
NormalTitle(article) == Lower(Strip(Get(article, "title", <<>>)))

\* lines 30-37
RECURSIVE DedupFrom(_, _)
DedupFrom(arts, seen) ==
    IF arts = <<>> THEN <<>>
    ELSE LET title == NormalTitle(Head(arts))
         IN  IF title # <<>> /\ title \notin seen
             THEN <<Head(arts)>> \o DedupFrom(Tail(arts), seen \cup {title})
             ELSE DedupFrom(Tail(arts), seen)

deduplicate_articles(arts) == DedupFrom(arts, {})

\* the test of line 65 with > in place of >=
AboveThreshold(a) == Get(a, "tweet_worthiness", 0) > Threshold

\* the test of line 65
PassesThreshold(a) == Get(a, "tweet_worthiness", 0) >= Threshold

\* line 65
FilterArticles(arts) == SelectSeq(arts, PassesThreshold)

\* the scored records the summary stage can be given: the title is "F",
\* " f" or "", the score is 6, 7 or 10; or the title, the score or both are
\* missing
SummaryTitles == {<<"F">>, <<WS, "f">>, <<>>}
SummaryScores == {6, 7, 10}
SummaryRecords ==
    {[html |-> "h", title |-> t, tweet_worthiness |-> n] :
        t \in SummaryTitles, n \in SummaryScores}
    \cup {[html |-> "h", title |-> <<"F">>], [html |-> "h", tweet_worthiness |-> 7],
          [html |-> "h"]}

\* lines 47-67: the input test, the load, the filter and the deduplication
SummaryPrepare ==
    /\ sumPc = "idle"
    /\ IF ~scoredFile.exists
       THEN /\ sumPc' = "noinput"
            /\ UNCHANGED <<filtered, unique_articles>>
       ELSE IF scoredFile.data = <<>>
       THEN /\ sumPc' = "empty"
            /\ UNCHANGED <<filtered, unique_articles>>
       ELSE /\ filtered' = FilterArticles(scoredFile.data)
            /\ unique_articles' = deduplicate_articles(filtered')
            /\ sumPc' = "invoke"
    /\ UNCHANGED <<raw_response, summary_articles, summaryFile>>
    /\ UNCHANGED <<rawFile, scoredFile, promptFile, runVars, restVars>>

InitSummaryStage ==
    /\ rawFile = NoFile
    /\ scoredFile \in {File(b) : b \in BatchesUpTo(SummaryRecords, MaxScored)}
                        \cup {NoFile}
    /\ promptFile = PromptOf(<<"p0">>)
    /\ InitRun
    /\ InitSummary
    /\ InitRest

NextSummary == SummaryPrepare

\* the summary stage run on a scored file
SpecSummary == InitSummaryStage /\ [][NextSummary]_vars

(***************************************************************************)
(* run_summary_agent from the collaborator's call to the summary file,     *)
(* summary_agent.py lines 64-117.                                          *)
(***************************************************************************)
\* what the summary collaborator can put between the wrappers
SummaryPayloads ==
    { <<LBRACKET, "a1", COMMA, WS, "a2", RBRACKET>>,
      <<LBRACKET, "a2", COMMA, "a1", RBRACKET>>,
      <<LBRACKET, "ax", RBRACKET>>,
      <<LBRACKET, RBRACKET>>,
      <<LBRACKET, "a1">>,
      <<LBRACKET, "a1", RBRACKET, WS, LBRACKET, "a2", RBRACKET>>,
      <<NUM>>,
      <<LBRACE, "tw9", RBRACE>>,
      <<TXT, WS, TXT>>,
      <<>> }

SummaryResponses ==
    {[kind |-> "dict", text |-> w.pre \o q \o w.post] :
        w \in Wrappers, q \in SummaryPayloads}
    \cup {[kind |-> "str", text |-> q] : q \in SummaryPayloads}
    \cup {[kind |-> "dictNoText", text |-> <<>>]}

\* the pattern with re.DOTALL: from the first opening bracket to the last
\* closing bracket that follows it
RegexArray(s) ==
    LET opens == {i \in 1..Len(s) : s[i] = LBRACKET}
    IN  IF opens = {} THEN <<>>
        ELSE LET first == CHOOSE i \in opens : \A j \in opens : i <= j
                 closes == {i \in first..Len(s) : s[i] = RBRACKET}
             IN  IF closes = {} THEN <<>>
                 ELSE SubSeq(s, first,
                             CHOOSE i \in closes : \A j \in closes : j <= i)

\* lines 98-102: the match if there is one, else the whole text
CandidateArray(s) == IF RegexArray(s) = <<>> THEN s ELSE RegexArray(s)

\* lines 90-103: the text that json.loads is given
SummaryJsonStr(r) == CandidateArray(Unfence(Strip(ResponseStr(r))))

\* the record an element of the answer stands for
ElemVal(tok, input) ==
    IF tok = "a1" /\ Len(input) >= 1 THEN ("link" :> "u") @@ input[1]
    ELSE IF tok = "a2" /\ Len(input) >= 2 THEN ("link" :> "u") @@ input[2]
    ELSE [title |-> <<"f">>, tweet_worthiness |-> 10, link |-> "u"]

\* lines 89-108: whatever json.loads returns, or the input on an exception
SummaryDecode(r, input) ==
    LET loaded == JsonLoads(SummaryJsonStr(r))
    IN  IF loaded.ok
        THEN [kind |-> loaded.kind,
              items |-> [i \in 1..Len(loaded.items) |->
                            ElemVal(loaded.items[i], input)],
              obj |-> loaded.obj]
        ELSE ArrayValue(input)

\* line 87: the collaborator answers
SummaryInvoke ==
    /\ sumPc = "invoke"
    /\ \E r \in SummaryResponses : raw_response' = r
    /\ sumPc' = "parse"
    /\ UNCHANGED <<filtered, unique_articles, summary_articles, summaryFile>>
    /\ UNCHANGED <<rawFile, scoredFile, promptFile, runVars, restVars>>

\* line 87 is outside the try: the collaborator's exception leaves the stage
SummaryInvokeRaises ==
    /\ sumPc = "invoke"
    /\ sumPc' = "crashed"
    /\ UNCHANGED <<filtered, unique_articles, raw_response, summary_articles,
                   summaryFile>>
    /\ UNCHANGED <<rawFile, scoredFile, promptFile, runVars, restVars>>

\* lines 89-108
SummaryParse ==
    /\ sumPc = "parse"
    /\ summary_articles' = SummaryDecode(raw_response, unique_articles)
    /\ sumPc' = "write"
    /\ UNCHANGED <<filtered, unique_articles, raw_response, summaryFile>>
    /\ UNCHANGED <<rawFile, scoredFile, promptFile, runVars, restVars>>

\* lines 111-115
SummaryWrite ==
    /\ sumPc = "write"
    /\ summaryFile' = ValueFile(summary_articles)
    /\ sumPc' = "done"
    /\ UNCHANGED <<filtered, unique_articles, raw_response, summary_articles>>
    /\ UNCHANGED <<rawFile, scoredFile, promptFile, runVars, restVars>>

\* lines 116-117: the write fails and is logged
SummaryWriteFails ==
    /\ sumPc = "write"
    /\ sumPc' = "done"
    /\ UNCHANGED <<filtered, unique_articles, raw_response, summary_articles,
                   summaryFile>>
    /\ UNCHANGED <<rawFile, scoredFile, promptFile, runVars, restVars>>

InitSummaryRun ==
    /\ rawFile = NoFile
    /\ scoredFile \in {File(b) : b \in BatchesUpTo(SummaryRecords, MaxSummaryIn)}
                        \cup {NoFile}
    /\ promptFile = PromptOf(<<"p0">>)
    /\ InitRun
    /\ InitSummary
    /\ InitRest

NextSummaryRun ==
    \/ SummaryPrepare
    \/ SummaryInvoke
    \/ SummaryInvokeRaises
    \/ SummaryParse
    \/ SummaryWrite
    \/ SummaryWriteFails

\* the summary stage run to its end
SpecSummaryRun == InitSummaryRun /\ [][NextSummaryRun]_vars

(***************************************************************************)
(* improve_prompt and agent_improve_prompt, prompt_updater.py lines 8-163. *)
(***************************************************************************)
\* longest reviewed batch in the file at generated_json_path
MaxFeedback == 3
\* most files in the daily directory
MaxDaily == 2

\* a field value as json.load returns it: a number, a string or null
JInt(n) == [t |-> "int", n |-> n, s |-> <<>>]
JStr(chars) == [t |-> "str", n |-> 0, s |-> chars]
JNull == [t |-> "null", n |-> 0, s |-> <<>>]

DigitChars == <<"0", "1", "2", "3", "4", "5", "6", "7", "8", "9">>

IsDigits(t) ==
    /\ t # <<>>
    /\ \A i \in 1..Len(t) : \E d \in 1..Len(DigitChars) : t[i] = DigitChars[d]

DigitVal(c) == (CHOOSE d \in 1..Len(DigitChars) : DigitChars[d] = c) - 1

RECURSIVE ParseDigits(_)
ParseDigits(t) ==
    IF t = <<>> THEN 0
    ELSE 10 * ParseDigits(SubSeq(t, 1, Len(t) - 1)) + DigitVal(t[Len(t)])

\* float() that takes numbers only
FloatIntOnly(v) ==
    IF v.t = "int" THEN [ok |-> TRUE, v |-> v.n] ELSE [ok |-> FALSE, v |-> 0]

\* float() that takes every value
FloatAny(v) == [ok |-> TRUE, v |-> v.n]

\* line 74, float(): a number is itself, a string is parsed after its
\* surrounding whitespace is dropped, anything else raises
Float(v) ==
    IF v.t = "int" THEN [ok |-> TRUE, v |-> v.n]
    ELSE IF v.t = "str" /\ IsDigits(Strip(v.s))
    THEN [ok |-> TRUE, v |-> ParseDigits(Strip(v.s))]
    ELSE [ok |-> FALSE, v |-> 0]

\* line 78: the score with one decimal, in tenths, and the reasoning
Entry(score, reasoning) == [score10 |-> 10 * score, reasoning |-> reasoning]

\* lines 71-78
RECURSIVE ExtractLoop(_, _, _, _)
ExtractLoop(arts, i, scores, entries) ==
    IF i > Len(arts) THEN [scores |-> scores, entries |-> entries]
    ELSE IF "user_score" \in DOMAIN arts[i] /\ "user_reasoning" \in DOMAIN arts[i]
    THEN LET f == Float(arts[i].user_score)
         IN  IF f.ok
             THEN ExtractLoop(arts, i + 1, Append(scores, f.v),
                              Append(entries, Entry(f.v, arts[i].user_reasoning)))
             ELSE ExtractLoop(arts, i + 1, scores, entries)
    ELSE ExtractLoop(arts, i + 1, scores, entries)

RECURSIVE SumSeq(_)
SumSeq(q) == IF q = <<>> THEN 0 ELSE q[1] + SumSeq(Tail(q))

\* lines 84 and 88: the mean with two decimals, in hundredths; with fewer than
\* eight whole scores no mean lies halfway between two hundredths
Mean100(q) == (200 * SumSeq(q) + Len(q)) \div (2 * Len(q))

\* reviewed and unreviewed records of the files improve_prompt reads
Rec6 == [title |-> <<"F">>, user_score |-> JInt(6), user_reasoning |-> "r1"]
Rec8 == [title |-> <<"F">>, user_score |-> JInt(8), user_reasoning |-> "r2"]
RecX == [title |-> <<"F">>, user_score |-> JStr(<<"x">>), user_reasoning |-> "r3"]

UpdRecords ==
    { Rec6, Rec8, RecX,
      [title |-> <<"F">>, user_score |-> JStr(<<WS, "7">>), user_reasoning |-> "r1"],
      [title |-> <<"F">>, user_score |-> JNull, user_reasoning |-> "r2"],
      [title |-> <<"F">>, user_score |-> JInt(6)],
      [title |-> <<"F">>, user_reasoning |-> "r1"],
      [title |-> <<"F">>] }

\* a file of the daily directory: whether its name ends in .json, and what
\* json.load makes of it
DailyFile(json, ok, data) == [json |-> json, ok |-> ok, data |-> data]

DailyContents ==
    { DailyFile(FALSE, TRUE, <<Rec6>>),
      DailyFile(TRUE, FALSE, <<>>),
      DailyFile(TRUE, TRUE, <<>>),
      DailyFile(TRUE, TRUE, <<Rec6>>),
      DailyFile(TRUE, TRUE, <<RecX>>) }

GeneratedSmall ==
    { NoJsonFile, CorruptFile, JsonFile(<<>>), JsonFile(<<Rec6>>), JsonFile(<<RecX>>) }

\* the records of the first file only
AggregateFirstOnly(files) ==
    IF files = <<>> THEN <<>>
    ELSE IF files[1].json /\ files[1].ok THEN files[1].data ELSE <<>>

\* lines 32-40: the records of the readable .json files, in listing order
RECURSIVE Aggregate(_)
Aggregate(files) ==
    IF files = <<>> THEN <<>>
    ELSE (IF files[1].json /\ files[1].ok THEN files[1].data ELSE <<>>)
         \o Aggregate(Tail(files))

\* what chain.run can return
RewriteTexts == { <<"p1">>, <<WS, "p1", WS>>, <<"p1", WS, "p2">>, <<>> }

RewriteResponses ==
    {[kind |-> k, text |-> t] : k \in {"str", "dict"}, t \in RewriteTexts}
    \cup {[kind |-> "dictNoText", text |-> <<>>]}

\* agent_improve_prompt without the strip
AgentImproveRaw(r) == r.text

\* lines 155-163: the text of the answer, stripped
AgentImprove(r) == Strip(r.text)

updFrame == <<daily_dir, generatedFile, promptBefore>>

\* what is recorded of the archival loop
archFrame == <<archive_listing, renameFailed>>

\* lines 28-67
UpdLoad ==
    /\ updPc = "idle"
    /\ LET daily == IF daily_dir = "dir" THEN Aggregate(dailyFiles) ELSE <<>>
       IN  IF daily_dir # "None" /\ daily # <<>>
           THEN /\ updArticles' = daily
                /\ updSource' = "dir"
                /\ updPc' = "extract"
                /\ UNCHANGED updResult
           ELSE IF generatedFile.exists /\ generatedFile.ok
           THEN /\ updArticles' = generatedFile.data
                /\ updSource' = "file"
                /\ updPc' = "extract"
                /\ UNCHANGED updResult
           ELSE /\ updResult' = "False"
                /\ updPc' = "done"
                /\ UNCHANGED <<updArticles, updSource>>
    /\ UNCHANGED <<updFrame, archFrame, dailyFiles, processedFiles, human_scores,
                   feedback_entries, feedback_section, upd_response,
                   improved_prompt, rewriteCalls, promptWrites>>
    /\ UNCHANGED <<rawFile, scoredFile, promptFile, runVars, sumVars, revVars,
                   fetchVars>>

\* lines 69-91
UpdExtract ==
    /\ updPc = "extract"
    /\ LET out == ExtractLoop(updArticles, 1, <<>>, <<>>)
       IN  /\ human_scores' = out.scores
           /\ feedback_entries' = out.entries
           /\ IF out.scores = <<>>
              THEN /\ updResult' = "False"
                   /\ updPc' = "done"
                   /\ UNCHANGED feedback_section
              ELSE /\ feedback_section' = [avg100 |-> Mean100(out.scores),
                                           lines |-> out.entries]
                   /\ updPc' = "rewrite"
                   /\ UNCHANGED updResult
    /\ UNCHANGED <<updFrame, archFrame, dailyFiles, processedFiles, updArticles, updSource,
                   upd_response, improved_prompt, rewriteCalls, promptWrites>>
    /\ UNCHANGED <<rawFile, scoredFile, promptFile, runVars, sumVars, revVars,
                   fetchVars>>

\* lines 93-101 and 155-163: the collaborator answers; an answer object
\* without a text key has no strip and ends the run at lines 121-123
UpdRewrite ==
    /\ updPc = "rewrite"
    /\ \E r \in RewriteResponses :
         /\ upd_response' = r
         /\ IF r.kind = "dictNoText"
            THEN /\ updResult' = "False"
                 /\ updPc' = "done"
                 /\ UNCHANGED improved_prompt
            ELSE /\ improved_prompt' = AgentImprove(r)
                 /\ updPc' = "write"
                 /\ UNCHANGED updResult
    /\ rewriteCalls' = rewriteCalls + 1
    /\ UNCHANGED <<updFrame, archFrame, dailyFiles, processedFiles, updArticles, updSource,
                   human_scores, feedback_entries, feedback_section, promptWrites>>
    /\ UNCHANGED <<rawFile, scoredFile, promptFile, runVars, sumVars, revVars,
                   fetchVars>>

\* lines 101 and 121-123: the collaborator raises
UpdRewriteRaises ==
    /\ updPc = "rewrite"
    /\ rewriteCalls' = rewriteCalls + 1
    /\ updResult' = "False"
    /\ updPc' = "done"
    /\ UNCHANGED <<updFrame, archFrame, dailyFiles, processedFiles, updArticles, updSource,
                   human_scores, feedback_entries, feedback_section,
                   upd_response, improved_prompt, promptWrites>>
    /\ UNCHANGED <<rawFile, scoredFile, promptFile, runVars, sumVars, revVars,
                   fetchVars>>

\* lines 103-107 and 120
UpdWritePrompt ==
    /\ updPc = "write"
    /\ promptFile' = PromptOf(improved_prompt)
    /\ promptWrites' = promptWrites + 1
    /\ IF daily_dir # "None"
       THEN updPc' = "archive" /\ UNCHANGED updResult
       ELSE updPc' = "done" /\ updResult' = "True"
    /\ UNCHANGED <<updFrame, archFrame, dailyFiles, processedFiles, updArticles, updSource,
                   human_scores, feedback_entries, feedback_section,
                   upd_response, improved_prompt, rewriteCalls>>
    /\ UNCHANGED <<rawFile, scoredFile, runVars, sumVars, revVars, fetchVars>>

\* lines 103 and 121-123: the prompt file cannot be opened for writing
UpdWriteFails ==
    /\ updPc = "write"
    /\ updResult' = "False"
    /\ updPc' = "done"
    /\ UNCHANGED <<updFrame, archFrame, dailyFiles, processedFiles, updArticles, updSource,
                   human_scores, feedback_entries, feedback_section,
                   upd_response, improved_prompt, rewriteCalls, promptWrites>>
    /\ UNCHANGED <<rawFile, scoredFile, promptFile, runVars, sumVars, revVars,
                   fetchVars>>

\* the files at the positions of keep, in order
RECURSIVE Restrict(_, _, _)
Restrict(files, keep, i) ==
    IF i > Len(files) THEN <<>>
    ELSE (IF i \in keep THEN <<files[i]>> ELSE <<>>) \o Restrict(files, keep, i + 1)

\* the positions of the listing whose name ends in .json
JsonNames(files) == {i \in 1..Len(files) : files[i].json}

\* a loop that ends at the first rename that raises
MovedUntilFailure(files, failing) ==
    {i \in JsonNames(files) : \A j \in failing : i < j}

\* lines 111-119: the rename of each .json file is in a try of its own, so
\* every file whose rename does not raise is moved
Moved(files, failing) == JsonNames(files) \ failing

\* lines 107-123: every .json file of the directory is renamed into
\* processed_daily, a failed rename is logged and the file stays; listing a
\* daily_dir that is no directory raises, and so can os.makedirs at line
\* 110, and the run then returns False
UpdArchive ==
    /\ updPc = "archive"
    /\ \/ /\ daily_dir = "dir"
          /\ \E failing \in SUBSET JsonNames(dailyFiles) :
                LET moved == Moved(dailyFiles, failing)
                IN  /\ processedFiles' = processedFiles \o Restrict(dailyFiles, moved, 1)
                    /\ dailyFiles' = Restrict(dailyFiles, (1..Len(dailyFiles)) \ moved, 1)
                    /\ archive_listing' = dailyFiles
                    /\ renameFailed' = failing
          /\ updResult' = "True"
       \/ /\ updResult' = "False"
          /\ UNCHANGED <<dailyFiles, processedFiles, archFrame>>
    /\ updPc' = "done"
    /\ UNCHANGED <<updFrame, updArticles, updSource, human_scores,
                   feedback_entries, feedback_section, upd_response,
                   improved_prompt, rewriteCalls, promptWrites>>
    /\ UNCHANGED <<rawFile, scoredFile, promptFile, runVars, sumVars, revVars,
                   fetchVars>>

InitUpdate ==
    /\ rawFile = NoFile
    /\ scoredFile = NoFile
    /\ promptFile \in {NoPrompt, PromptOf(<<"p0">>)}
    /\ InitRun
    /\ InitSummary
    /\ \/ /\ daily_dir = "None"
          /\ dailyFiles = <<>>
          /\ generatedFile \in
                {JsonFile(b) : b \in BatchesUpTo(UpdRecords, MaxFeedback)}
                \cup {NoJsonFile, CorruptFile}
       \/ /\ daily_dir = "dir"
          /\ dailyFiles \in BatchesUpTo(DailyContents, MaxDaily)
          /\ generatedFile \in GeneratedSmall
       \/ /\ daily_dir = "missing"
          /\ dailyFiles = <<>>
          /\ generatedFile \in GeneratedSmall
    /\ processedFiles = <<>>
    /\ updPc = "idle"
    /\ updArticles = <<>>
    /\ updSource = "none"
    /\ human_scores = <<>>
    /\ feedback_entries = <<>>
    /\ feedback_section = NoSection
    /\ upd_response = NoResponse
    /\ improved_prompt = <<>>
    /\ promptBefore = promptFile
    /\ rewriteCalls = 0
    /\ promptWrites = 0
    /\ updResult = "none"
    /\ archive_listing = <<>>
    /\ renameFailed = {}
    /\ InitRevIdle
    /\ InitFetchIdle

NextUpdate ==
    \/ UpdLoad
    \/ UpdExtract
    \/ UpdRewrite
    \/ UpdRewriteRaises
    \/ UpdWritePrompt
    \/ UpdWriteFails
    \/ UpdArchive

\* one call of improve_prompt
SpecUpdate == InitUpdate /\ [][NextUpdate]_vars

(***************************************************************************)
(* The review application, app.py lines 20-79.  DATA_PATH is the scored    *)
(* file.                                                                   *)
(***************************************************************************)
\* longest batch under review
MaxReview == 2

\* scored records, one of them reviewed before
ReviewRecords ==
    { [title |-> <<"F">>, tweet_worthiness |-> 9, summary |-> "ok"],
      [title |-> <<"f">>, tweet_worthiness |-> 0, summary |-> FallbackSummary],
      [title |-> <<"F">>, tweet_worthiness |-> 5, summary |-> "ok",
       user_score |-> 3, user_reasoning |-> "t0"] }

AgreeForm == [action |-> "agree"]

\* manual submissions: a score field that reads as an integer, one that does
\* not, an empty one and none at all
OverrideForms ==
    {[action |-> "override", user_score |-> sc, user_reasoning |-> "t1"] :
        sc \in {<<"7">>, <<WS, "1", "0">>, <<"x">>, <<>>}}
    \cup {[action |-> "override", user_reasoning |-> "t1"]}

Forms == {AgreeForm} \cup OverrideForms

\* line 53, int(request.form.get('user_score')): the digits between optional
\* whitespace; a missing field or any other text raises
FormInt(form) ==
    IF "user_score" \in DOMAIN form /\ IsDigits(Strip(form.user_score))
    THEN [ok |-> TRUE, v |-> ParseDigits(Strip(form.user_score))]
    ELSE [ok |-> FALSE, v |-> 0]

\* an agree that keeps the score and the text of an earlier decision
DecisionSticky(article_data, form) ==
    IF form.action = "agree"
    THEN [user_score |->
              Get(article_data, "user_score",
                  Get(article_data, "tweet_worthiness", "None")),
          user_reasoning |->
              Get(article_data, "user_reasoning",
                  Get(article_data, "summary", "None"))]
    ELSE [user_score |-> FormInt(form).v,
          user_reasoning |-> Get(form, "user_reasoning", "None")]

\* lines 49-54
Decision(article_data, form) ==
    IF form.action = "agree"
    THEN [user_score |-> Get(article_data, "tweet_worthiness", "None"),
          user_reasoning |-> Get(article_data, "summary", "None")]
    ELSE [user_score |-> FormInt(form).v,
          user_reasoning |-> Get(form, "user_reasoning", "None")]

\* a store that keeps the fields a record already has
StoreKeepOld(article_data, d) ==
    article_data @@ ("user_score" :> d.user_score)
                 @@ ("user_reasoning" :> d.user_reasoning)

\* a store that writes a record of the decision alone
StoreBare(article_data, d) ==
    [user_score |-> d.user_score, user_reasoning |-> d.user_reasoning]

\* lines 57-58
Store(article_data, d) ==
    ("user_score" :> d.user_score) @@ ("user_reasoning" :> d.user_reasoning)
        @@ article_data

\* lines 46-62: the batch that save_articles writes after a submission on
\* article j
Saved(batch, j, form) ==
    [batch EXCEPT ![j + 1] = Store(@, Decision(@, form))]

\* lines 31-34: the root route sends the browser to article 0
ReviewRoot ==
    /\ revPc # "request"
    /\ revLast' = Request("root", 0, NoForm)
    /\ revLoc' = 0
    /\ revPc' = "request"
    /\ UNCHANGED <<rawFile, scoredFile, promptFile, runVars, sumVars, updVars,
                   fetchVars>>

\* lines 36-45 and 68-75 for a GET of article j
ArticleGet(j) ==
    /\ revLast' = Request("get", j, NoForm)
    /\ revLoc' = j
    /\ revPc' = IF j >= Len(scoredFile.data) THEN "completed" ELSE "shown"
    /\ UNCHANGED <<rawFile, scoredFile, promptFile, runVars, sumVars, updVars,
                   fetchVars>>

\* lines 36-66 for a POST on article j: past the end the completed page; a
\* score that int() rejects leaves the handler with the exception, which the
\* browser sees as a server error; otherwise the decision is stored, the
\* batch saved and the browser sent to j + 1
ArticlePost(j, form) ==
    /\ revLast' = Request("post", j, form)
    /\ IF j >= Len(scoredFile.data)
       THEN /\ revPc' = "completed"
            /\ revLoc' = j
            /\ UNCHANGED scoredFile
       ELSE IF form.action # "agree" /\ ~FormInt(form).ok
       THEN /\ revPc' = "error"
            /\ revLoc' = j
            /\ UNCHANGED scoredFile
       ELSE /\ scoredFile' = File(Saved(scoredFile.data, j, form))
            /\ revLoc' = j + 1
            /\ revPc' = "request"
    /\ UNCHANGED <<rawFile, promptFile, runVars, sumVars, updVars, fetchVars>>

\* the browser follows a redirect
ReviewFollow ==
    /\ revPc = "request"
    /\ ArticleGet(revLoc)

\* the operator opens an article page by its address
ReviewDirect ==
    /\ revPc # "request"
    /\ \E j \in 0..(MaxReview + 1) : ArticleGet(j)

\* the operator submits the form of the page shown
ReviewSubmit ==
    /\ revPc = "shown"
    /\ \E form \in Forms : ArticlePost(revLoc, form)

\* a form is posted to an article address that is not the page shown
ReviewPostDirect ==
    /\ revPc # "request"
    /\ \E j \in 0..(MaxReview + 1), form \in Forms :
         /\ revPc = "shown" => j # revLoc
         /\ ArticlePost(j, form)

InitReview ==
    /\ rawFile = NoFile
    /\ scoredFile \in {File(b) : b \in BatchesUpTo(ReviewRecords, MaxReview)}
    /\ promptFile = PromptOf(<<"p0">>)
    /\ InitRun
    /\ InitSummary
    /\ InitRest

NextReview ==
    \/ ReviewRoot
    \/ ReviewFollow
    \/ ReviewDirect
    \/ ReviewSubmit
    \/ ReviewPostDirect

\* a review session on a scored file
SpecReview == InitReview /\ [][NextReview]_vars

(***************************************************************************)
(* fetch_gdelt_articles, gdelt_pipeline.py lines 26-88.                    *)
(***************************************************************************)
\* most features in a response body
MaxFeatures == 2

\* line 58: the slice taken of the features
FeatureCap == 10

\* lines 32-38
DefaultParams ==
    [query |-> "landslide", mode |-> "PointData", timespan |-> "1d",
     format |-> "geojson", maxrecords |-> 10]

CustomParams ==
    { NoParams,
      ParamsOf([query |-> "landslide"]),
      ParamsOf([query |-> "flood", maxrecords |-> 5]) }

\* lines 39-41
Params(custom) ==
    IF custom.given
    THEN ParamsOf([k \in DOMAIN DefaultParams |->
                     Get(custom.map, k, DefaultParams[k])])
    ELSE ParamsOf(DefaultParams)

\* the html of a feature: tokens, "attrT" being a title attribute of value T
HtmlAttrs == {"attrT"}
AttrVal(tok) == "T"

\* line 65: the first title attribute of the html, if any
TitleAttr(html) ==
    LET at == {i \in 1..Len(html) : html[i] \in HtmlAttrs}
    IN  IF at = {} THEN [found |-> FALSE, value |-> ""]
        ELSE [found |-> TRUE,
              value |-> AttrVal(html[CHOOSE i \in at : \A j \in at : i <= j])]

\* the features a body can hold; bad is a feature that is no object
Features ==
    { [bad |-> FALSE, properties |-> [title |-> "T1", name |-> "n", html |-> <<"a">>],
       geometry |-> "g"],
      [bad |-> FALSE, properties |-> [name |-> "n", html |-> <<"a", "attrT">>],
       geometry |-> "g"],
      [bad |-> FALSE, properties |-> [title |-> "", name |-> "n", html |-> <<"a">>],
       geometry |-> "g"],
      [bad |-> FALSE, properties |-> [count |-> 3]],
      [bad |-> TRUE] }

\* what requests.get can give: an exception, a status that is not ok, or a
\* body that is no JSON, a JSON array, or an object with or without features
FetchResponses ==
    {[kind |-> k, body |-> <<>>] : k \in {"timeout", "transport", "status"}}
    \cup {[kind |-> "ok", body |-> [json |-> j, features |-> <<>>]] :
            j \in {"bad", "array", "nofeatures"}}
    \cup {[kind |-> "ok", body |-> [json |-> "object", features |-> f]] :
            f \in BatchesUpTo(Features, MaxFeatures)}

\* lines 59-78
ProcessFeature(feature) ==
    LET properties == feature.properties
        html_content == Get(properties, "html", <<>>)
        given == Get(properties, "title", "")
        title_value ==
            IF given # "" THEN given
            ELSE IF TitleAttr(html_content).found THEN TitleAttr(html_content).value
            ELSE Get(properties, "name", "N/A")
    IN  [title |-> title_value,
         name |-> Get(properties, "name", "N/A"),
         count |-> Get(properties, "count", "N/A"),
         shareimage |-> Get(properties, "shareimage", "N/A"),
         html |-> html_content,
         geometry |-> Get(feature, "geometry", "none")]

Raised == [raised |-> TRUE, value |-> <<>>]
Returned(value) == [raised |-> FALSE, value |-> value]

\* lines 47-85 without the except clause: what the body of the try gives
TryBody(resp) ==
    IF resp.kind \in {"timeout", "transport"} THEN Raised
    ELSE IF resp.kind = "status" THEN Returned(<<>>)
    ELSE IF resp.body.json \in {"bad", "array"} THEN Raised
    ELSE LET features == resp.body.features
             taken == SubSeq(features, 1,
                             IF Len(features) < FeatureCap THEN Len(features)
                             ELSE FeatureCap)
         IN  IF \E i \in 1..Len(taken) : taken[i].bad THEN Raised
             ELSE Returned([i \in 1..Len(taken) |-> ProcessFeature(taken[i])])

\* an except clause that catches nothing
EscapesWhenRaised(out) == out.raised

\* lines 86-88: except Exception catches what the try raises
Escapes(out) == FALSE

\* lines 32-47: the one call of requests.get
FetchCall ==
    /\ fetchPc = "idle"
    /\ fetchParams' = Params(custom_params)
    /\ fetchRequests' = fetchRequests + 1
    /\ \E resp \in FetchResponses : fetchResponse' = resp
    /\ fetchPc' = "got"
    /\ UNCHANGED <<custom_params, fetchResult>>
    /\ UNCHANGED <<rawFile, scoredFile, promptFile, runVars, sumVars, updVars,
                   revVars>>

\* lines 48-88
FetchReturn ==
    /\ fetchPc = "got"
    /\ LET out == TryBody(fetchResponse)
       IN  IF Escapes(out)
           THEN fetchPc' = "crashed" /\ UNCHANGED fetchResult
           ELSE /\ fetchPc' = "done"
                /\ fetchResult' = IF out.raised THEN <<>> ELSE out.value
    /\ UNCHANGED <<custom_params, fetchParams, fetchRequests, fetchResponse>>
    /\ UNCHANGED <<rawFile, scoredFile, promptFile, runVars, sumVars, updVars,
                   revVars>>

InitFetch ==
    /\ rawFile = NoFile
    /\ scoredFile = NoFile
    /\ promptFile = PromptOf(<<"p0">>)
    /\ InitRun
    /\ InitSummary
    /\ InitUpdIdle
    /\ InitRevIdle
    /\ custom_params \in CustomParams
    /\ fetchParams = NoParams
    /\ fetchPc = "idle"
    /\ fetchRequests = 0
    /\ fetchResponse = NoFetchResponse
    /\ fetchResult = <<>>

NextFetch == FetchCall \/ FetchReturn

\* one call of fetch_gdelt_articles
SpecFetch == InitFetch /\ [][NextFetch]_vars

(***************************************************************************)
(* A scoring run and a call of improve_prompt on the same prompt file:     *)
(* separate processes, any interleaving of their steps.                    *)
(***************************************************************************)
\* the evaluator's answers while the two run together
SharedResponses ==
    { [kind |-> "str", text |-> <<LBRACE, "tw9", COMMA, WS, "smOk", RBRACE>>],
      [kind |-> "str", text |-> <<TXT, WS, TXT>>] }

InitShared ==
    /\ rawFile \in {File(b) : b \in BatchesUpTo(RawRecords, MaxArticles)}
    /\ scoredFile = NoFile
    /\ promptFile \in {NoPrompt, PromptOf(<<"p0">>)}
    /\ InitRun
    /\ InitSummary
    /\ \/ daily_dir = "None" /\ dailyFiles = <<>>
       \/ daily_dir = "dir" /\ dailyFiles = <<DailyFile(TRUE, TRUE, <<Rec6>>)>>
    /\ generatedFile = JsonFile(<<Rec6>>)
    /\ processedFiles = <<>>
    /\ updPc = "idle"
    /\ updArticles = <<>>
    /\ updSource = "none"
    /\ human_scores = <<>>
    /\ feedback_entries = <<>>
    /\ feedback_section = NoSection
    /\ upd_response = NoResponse
    /\ improved_prompt = <<>>
    /\ promptBefore = promptFile
    /\ rewriteCalls = 0
    /\ promptWrites = 0
    /\ updResult = "none"
    /\ archive_listing = <<>>
    /\ renameFailed = {}
    /\ InitRevIdle
    /\ InitFetchIdle

NextShared ==
    \/ Start(1)
    \/ CallEvaluatorFrom(1, SharedResponses)
    \/ EvaluatorRaises(1)
    \/ ParseMerge(1)
    \/ WriteScored(1)
    \/ WriteFails(1)
    \/ UpdLoad
    \/ UpdExtract
    \/ UpdRewrite
    \/ UpdRewriteRaises
    \/ UpdWritePrompt
    \/ UpdWriteFails
    \/ UpdArchive

SpecShared == InitShared /\ [][NextShared]_vars

(***************************************************************************)
(* Two scoring runs for the same date, and the review application on the   *)
(* scored file once it is there: separate processes, any interleaving.     *)
(***************************************************************************)
\* a step of scoring run p
RunStep(p) ==
    \/ Start(p)
    \/ CallEvaluatorFrom(p, SharedResponses)
    \/ EvaluatorRaises(p)
    \/ ParseMerge(p)
    \/ WriteScored(p)
    \/ WriteFails(p)

\* the operator walks through the scored file and agrees
ReviewScored ==
    /\ scoredFile.exists
    /\ \/ revPc = "closed" /\ ReviewRoot
       \/ ReviewFollow
       \/ revPc = "shown" /\ ArticlePost(revLoc, AgreeForm)

InitTwoRuns ==
    /\ rawFile \in {File(b) : b \in BatchesUpTo(RawRecords, MaxArticles)}
    /\ scoredFile = NoFile
    /\ promptFile = PromptOf(<<"p0">>)
    /\ InitRun
    /\ InitSummary
    /\ InitRest

NextTwoRuns ==
    \/ RunStep(1)
    \/ RunStep(2)
    \/ ReviewScored

SpecTwoRuns == InitTwoRuns /\ [][NextTwoRuns]_vars

(***************************************************************************)
(* Properties of the scoring stage.                                        *)
(***************************************************************************)
\* the answer in response_text[p] has gone through lines 123-154
Processed(p) == response_text[p].kind # "none" /\ pc[p] # "parse"

\* the answer is text: a str, or the "text" of the dict the chain returns
IsText(r) == r.kind \in {"str", "dict"}

HasVerdict(rec) == "tweet_worthiness" \in DOMAIN rec /\ "summary" \in DOMAIN rec

\* the values an evaluator answer can carry
ParsedScores == {MemberVal(t) : t \in TwToks}
ParsedSummaries == {MemberVal(t) : t \in SmToks}

\* C1: if the scored file exists when run_simulation starts, the run makes no
\* evaluator call and leaves the scored file as it was; a second run on the
\* same raw input leaves the file as the first run wrote it.
C1_SkipWhenScoredExists ==
    \A p \in Procs :
        (runs[p] > 0 /\ startExists[p]) =>
            (evalCalls[p] = 0 /\ scoredFile = startFile[p])

C1_Witness ==
    /\ runs[1] = 2 /\ startExists[1] /\ pc[1] = "skipped"
    /\ Len(scoredFile.data) = 2

\* C2: a scoring run that reaches its end has scored exactly the N raw records,
\* and the scored file it writes has N records whose titles match the raw batch
\* position by position.
C2_OrderPreserved ==
    /\ scoredFile.exists => TitlesOf(scoredFile.data) = TitlesOf(rawFile.data)
    /\ \A p \in Procs :
         pc[p] \in {"write", "done"} =>
            TitlesOf(scored_articles[p]) = TitlesOf(rawFile.data)

C2_Witness ==
    /\ scoredFile.exists /\ pc[1] = "done"
    /\ TitlesOf(scoredFile.data) = << <<"F">>, <<"f">> >>

\* C3: a failing evaluator call never ends the scoring run (the record gets the
\* fallback verdict and the run goes on).
C3_EvaluatorFailureContained ==
    \A p \in Procs : ~(pc[p] = "crashed" /\ error[p] = "EvaluatorError")

\* no part of the text is a JSON object
NoJsonObject(s) ==
    \A i, j \in 1..Len(s) : JsonLoads(SubSeq(s, i, j)).kind # "obj"

\* C4: when the evaluator's answer is text holding no parseable JSON object,
\* the merged record has tweet_worthiness 0 and the fallback summary, and the
\* run goes on.
C4_NoObjectGivesFallback ==
    \A p \in Procs :
        (Processed(p) /\ IsText(response_text[p])
            /\ NoJsonObject(response_text[p].text)) =>
            /\ error[p] # "AttributeError"
            /\ idx[p] >= 1
            /\ scored_articles[p][idx[p]]["tweet_worthiness"] = 0
            /\ scored_articles[p][idx[p]]["summary"] = FallbackSummary

\* C5: every record of a written scored file has an integer tweet_worthiness
\* between 0 and 10.
C5_ScoreInRange ==
    scoredFile.exists =>
        \A i \in 1..Len(scoredFile.data) :
            /\ "tweet_worthiness" \in DOMAIN scoredFile.data[i]
            /\ scoredFile.data[i]["tweet_worthiness"] \in 0..10

WrapChars == {WS, TICK, TXT}

\* the texts of one verdict object with the members t and m
VerdictObjects(t, m) ==
    { <<LBRACE, t, COMMA, m, RBRACE>>, <<LBRACE, t, COMMA, WS, m, RBRACE>>,
      <<LBRACE, m, COMMA, t, RBRACE>>, <<LBRACE, m, COMMA, WS, t, RBRACE>> }

\* the text is one verdict object between brace-free wrappers
IsWrappedVerdict(s, t, m) ==
    \E i, j \in 1..Len(s) :
        /\ i <= j
        /\ SubSeq(s, i, j) \in VerdictObjects(t, m)
        /\ \A k \in 1..Len(s) : (k < i \/ k > j) => s[k] \in WrapChars

\* C8: an answer that is one valid verdict object wrapped in whitespace, a code
\* fence (with or without a language tag) and brace-free text is decoded to
\* that verdict: the merged tweet_worthiness and summary are the object's.
C8_WrappedVerdictDecoded ==
    \A p \in Procs : \A t \in TwToks, m \in SmToks :
        (Processed(p) /\ IsText(response_text[p])
            /\ IsWrappedVerdict(response_text[p].text, t, m)) =>
            /\ error[p] # "AttributeError"
            /\ idx[p] >= 1
            /\ scored_articles[p][idx[p]]["tweet_worthiness"] = MemberVal(t)
            /\ scored_articles[p][idx[p]]["summary"] = MemberVal(m)

C8_Witness ==
    /\ pc[1] \in {"call", "write"}
    /\ response_text[1].text =
          <<TICK, TICK, TICK, TXT, WS, LBRACE, "smBr", COMMA, "tw9", RBRACE,
            WS, TICK, TICK, TICK>>
    /\ scored_articles[1][idx[1]]["summary"] = "a}b"
    /\ scored_articles[1][idx[1]]["tweet_worthiness"] = 9

(***************************************************************************)
(* Properties of the summary stage.                                        *)
(***************************************************************************)
\* the records of arts at the positions in keep, in order
RECURSIVE Pick(_, _)
Pick(arts, keep) ==
    IF arts = <<>> THEN <<>>
    ELSE LET n == Len(arts)
             front == Pick(SubSeq(arts, 1, n - 1), keep)
         IN  IF n \in keep THEN Append(front, arts[n]) ELSE front

\* trimmed and lower-cased title, empty when the title is missing
TitleKey(a) == IF "title" \in DOMAIN a THEN Lower(Strip(a["title"])) ELSE <<>>

\* the positions the deduplication is to keep: empty or missing titles, and
\* the first record of each other title
KeptByDedup(arts) ==
    {i \in 1..Len(arts) :
        \/ TitleKey(arts[i]) = <<>>
        \/ \A j \in 1..(i - 1) : TitleKey(arts[j]) # TitleKey(arts[i])}

\* C9: deduplicate_articles keeps the first record of each non-empty normalized
\* title, drops the later ones, and keeps every record whose title is empty or
\* missing (titles "F", " f", "", "" give 3 records).
C9_DedupKeepsEmptyTitles ==
    sumPc = "invoke" => unique_articles = Pick(filtered, KeptByDedup(filtered))

\* the positions of the records whose score is present and at least 7
AtLeastThreshold(arts) ==
    {i \in 1..Len(arts) :
        "tweet_worthiness" \in DOMAIN arts[i] /\ arts[i]["tweet_worthiness"] >= 7}

\* C10: the filter keeps exactly the records whose tweet_worthiness is at least
\* 7, a missing tweet_worthiness counting as 0 (scores 6, 7, 10 and a missing
\* one leave the 7 and the 10).
C10_ThresholdFilter ==
    sumPc = "invoke" =>
        filtered = Pick(scoredFile.data, AtLeastThreshold(scoredFile.data))

C10_Witness ==
    /\ sumPc = "invoke"
    /\ Len(scoredFile.data) = 4
    /\ scoredFile.data[1] = [html |-> "h", title |-> <<"F">>, tweet_worthiness |-> 6]
    /\ scoredFile.data[2] = [html |-> "h", title |-> <<"F">>, tweet_worthiness |-> 7]
    /\ scoredFile.data[3] = [html |-> "h", title |-> <<"F">>, tweet_worthiness |-> 10]
    /\ scoredFile.data[4] = [html |-> "h", title |-> <<"F">>]
    /\ filtered = <<scoredFile.data[2], scoredFile.data[3]>>

(***************************************************************************)
(* Properties of the summary stage's answer handling.                      *)
(***************************************************************************)
\* the answer parses as a JSON array after the fence and bracket recovery
AnswerIsArray(r) == JsonLoads(SummaryJsonStr(r)).kind = "arr"

\* C11: when the collaborator's answer cannot be parsed as a JSON array after
\* the fence and bracket recovery, the stage still completes and what it holds
\* and writes is the filtered, deduplicated set, unmodified
C11_NoArrayGivesDedupSet ==
    (sumPc \in {"write", "done"} /\ ~AnswerIsArray(raw_response))
        => /\ summary_articles.kind = "arr"
           /\ summary_articles.items = unique_articles
           /\ summaryFile.exists
                => /\ summaryFile.data.kind = "arr"
                   /\ summaryFile.data.items = unique_articles

(***************************************************************************)
(* Properties of improve_prompt.                                           *)
(***************************************************************************)
\* the value is a number or a string that reads as one
Coercible(v) ==
    \/ v.t = "int"
    \/ /\ v.t = "str"
       /\ \E i, j \in 0..Len(v.s) :
            /\ i + j < Len(v.s)
            /\ \A k \in 1..Len(v.s) :
                 IF k <= i \/ k > Len(v.s) - j THEN v.s[k] = WS
                 ELSE \E d \in 1..Len(DigitChars) : v.s[k] = DigitChars[d]

NumberOf(v) ==
    IF v.t = "int" THEN v.n
    ELSE ParseDigits(SelectSeq(v.s, LAMBDA c : c # WS))

Survives(a) ==
    /\ "user_score" \in DOMAIN a
    /\ "user_reasoning" \in DOMAIN a
    /\ Coercible(a.user_score)

Survivors(arts) == SelectSeq(arts, Survives)

Extracted == updPc \in {"rewrite", "write", "archive", "done"} /\ updSource # "none"

\* C12: the aggregator uses exactly the records that have both user_score and
\* user_reasoning and whose user_score coerces to a number; there is one
\* feedback line per such record, in input order, and the mean is the
\* arithmetic mean of their scores
C12_AggregatesSurvivors ==
    Extracted =>
        LET sv == Survivors(updArticles)
        IN  /\ human_scores = [i \in 1..Len(sv) |-> NumberOf(sv[i].user_score)]
            /\ feedback_entries =
                    [i \in 1..Len(sv) |->
                        [score10 |-> 10 * NumberOf(sv[i].user_score),
                         reasoning |-> sv[i].user_reasoning]]
            /\ sv # <<>> =>
                  /\ feedback_section.lines = feedback_entries
                  /\ 2 * Len(sv) * feedback_section.avg100
                        \in (200 * SumSeq(human_scores) - Len(sv) + 1)
                            ..(200 * SumSeq(human_scores) + Len(sv))

\* scores 6, 8 and "x": a mean of 7.00 and two feedback lines
C12_Witness ==
    /\ updPc = "rewrite"
    /\ updArticles = <<Rec6, Rec8, RecX>>
    /\ feedback_section.avg100 = 700
    /\ Len(feedback_section.lines) = 2

\* C13: when no record survives, the rewrite collaborator is not invoked, the
\* prompt file is unchanged and no input file is archived
C13_NoSurvivorNoUpdate ==
    (Extracted /\ Survivors(updArticles) = <<>>)
        => /\ updPc = "done"
           /\ updResult = "False"
           /\ rewriteCalls = 0
           /\ promptFile = promptBefore
           /\ processedFiles = <<>>

C13_Witness ==
    /\ updPc = "done"
    /\ daily_dir = "dir"
    /\ updSource = "dir"
    /\ updArticles = <<RecX>>
    /\ Len(dailyFiles) = 1

\* C14: files are moved to the processed directory only when the records came
\* from the directory source and the rewrite succeeded
C14_ArchiveOnlyDirectorySource ==
    processedFiles # <<>> => (updSource = "dir" /\ promptWrites = 1)

\* the answer without its surrounding whitespace
IsTrimOf(t, a) ==
    /\ t = <<>> \/ (t[1] # WS /\ t[Len(t)] # WS)
    /\ \E i, j \in 0..Len(a) :
         /\ i + Len(t) + j = Len(a)
         /\ \A k \in 1..Len(a) :
              IF k <= i \/ k > i + Len(t) THEN a[k] = WS ELSE a[k] = t[k - i]

\* C15: after a successful rewrite the prompt file holds exactly the
\* collaborator's answer, unwrapped and trimmed; when the collaborator fails
\* the file keeps its previous content; the file is written at most once
C15_PromptIsAnswerOrUntouched ==
    /\ promptWrites <= 1
    /\ promptWrites = 1
         => /\ promptFile.exists
            /\ upd_response.kind \in {"str", "dict"}
            /\ IsTrimOf(promptFile.text, upd_response.text)
    /\ promptWrites = 0 => promptFile = promptBefore

C15_Witness ==
    /\ updPc = "done"
    /\ promptWrites = 1
    /\ upd_response = [kind |-> "dict", text |-> <<WS, "p1", WS>>]
    /\ promptBefore = PromptOf(<<"p0">>)

(***************************************************************************)
(* Properties of the review application.                                   *)
(***************************************************************************)
\* C16: the root route starts at index 0; a submission on index i below the
\* total is followed by index i + 1; a request with an index at or above the
\* total goes to the completed state and modifies nothing
C16_ReviewProgression ==
    [][ LET req == revLast'
            total == Len(scoredFile.data)
        IN  /\ req.kind = "root" => (revPc' = "request" /\ revLoc' = 0)
            /\ (req.kind = "post" /\ req.index < total)
                  => (revPc' = "request" /\ revLoc' = req.index + 1)
            /\ (req.kind \in {"get", "post"} /\ req.index >= total)
                  => (revPc' = "completed" /\ scoredFile' = scoredFile) ]_vars

\* the integer the operator typed
TypedInt(form) == ParseDigits(SelectSeq(form.user_score, LAMBDA c : c # WS))

\* C17: after an agree submission on record i the persisted record has
\* user_score equal to its tweet_worthiness and user_reasoning equal to its
\* summary; after an override submission it has the operator's integer and
\* the operator's text
C17_DecisionPersisted ==
    (revLast.kind = "post" /\ revPc = "request")
        => LET rec == scoredFile.data[revLast.index + 1]
           IN  IF revLast.form.action = "agree"
               THEN /\ rec.user_score = rec.tweet_worthiness
                    /\ rec.user_reasoning = rec.summary
               ELSE /\ rec.user_score = TypedInt(revLast.form)
                    /\ rec.user_reasoning = revLast.form.user_reasoning

\* an override with 10 on a record reviewed before, then an agree on the next
C17_Witness ==
    /\ revLast = Request("post", 1, AgreeForm)
    /\ revPc = "request"
    /\ Len(scoredFile.data) = 2
    /\ "user_score" \in DOMAIN scoredFile.data[1]
    /\ scoredFile.data[1].user_score = 10
    /\ scoredFile.data[1].user_reasoning = "t1"
    /\ scoredFile.data[1].tweet_worthiness = 5
    /\ scoredFile.data[2].user_score = 0

(***************************************************************************)
(* Missing input files.                                                    *)
(***************************************************************************)
\* C18: when the raw input file is absent the scoring stage ends with a
\* reported failure, not with an exception, and writes no scored file; the
\* summary stage and the feedback aggregator likewise end with a reported
\* failure when their input file is absent
C18_MissingInputReported ==
    /\ \A p \in Procs :
         (runs[p] > 0 /\ ~startExists[p] /\ ~rawFile.exists)
            => (pc[p] # "crashed" /\ ~scoredFile.exists)
    /\ (sumPc # "idle" /\ ~scoredFile.exists) => sumPc = "noinput"
    /\ (updPc # "idle" /\ ~generatedFile.exists /\ updSource # "dir")
            => (updPc = "done" /\ updResult = "False")

(***************************************************************************)
(* Properties of the fetch stage.                                          *)
(***************************************************************************)
\* the response is a timeout, a transport error, a status that is not a
\* success, or a body that does not parse
FailedResponse(resp) ==
    \/ resp.kind \in {"timeout", "transport", "status"}
    \/ resp.kind = "ok" /\ resp.body.json = "bad"

\* C19: fetch_gdelt_articles lets no exception escape, returns an empty list
\* on a timeout, a transport error, a non-success status or an unparseable
\* body, and performs exactly one request
C19_FetchContained ==
    /\ fetchPc \in {"idle", "got", "done"}
    /\ fetchRequests <= 1
    /\ fetchPc = "done"
         => /\ fetchRequests = 1
            /\ FailedResponse(fetchResponse) => fetchResult = <<>>

C19_Witness ==
    /\ fetchPc = "done"
    /\ fetchResponse.kind = "timeout"
    /\ fetchRequests = 1
    /\ fetchResult = <<>>

(***************************************************************************)
(* The prompt file under a scoring run.                                    *)
(***************************************************************************)
\* C20: every record of a scoring run is evaluated against the prompt text
\* that was on disk when the run started, even if improve_prompt overwrites
\* the file while the run is in progress
C20_PromptFixedForRun ==
    \A p \in Procs :
        \A i \in 1..Len(promptUsed[p]) : promptUsed[p][i] = promptStart[p]

(***************************************************************************)
(* Two scoring runs for one date.                                          *)
(***************************************************************************)
\* C21: once the scored file has been written no scoring run writes it again,
\* under any interleaving of two runs, so that review decisions persisted in
\* it are not lost to a scoring run
C21_ScoredFileWrittenOnce ==
    [][ (scoredFile.exists /\ \E p \in Procs : pc[p] = "write" /\ pc'[p] = "done")
            => scoredFile' = scoredFile ]_vars

(***************************************************************************)
(* Answers that decode to something else than a full verdict.              *)
(***************************************************************************)
\* the candidate parses as a JSON object with both keys
ParsedVerdict(r) ==
    LET loaded == JsonLoads(Candidate(Unfence(Strip(ResponseStr(r)))))
    IN  /\ loaded.kind = "obj"
        /\ "tweet_worthiness" \in DOMAIN loaded.obj
        /\ "summary" \in DOMAIN loaded.obj

\* C22: whenever the answer does not decode to an object with both keys, be
\* it no JSON, JSON that is no object, or an object lacking a key, the merged
\* record has tweet_worthiness 0 and the fallback summary and the batch is
\* not aborted
C22_AnyDecodeFailureGivesFallback ==
    \A p \in Procs :
        (Processed(p) /\ ~ParsedVerdict(response_text[p])) =>
            /\ pc[p] # "crashed"
            /\ idx[p] >= 1
            /\ scored_articles[p][idx[p]]["tweet_worthiness"] = 0
            /\ scored_articles[p][idx[p]]["summary"] = FallbackSummary

(***************************************************************************)
(* What the summary stage writes, against what it was given.               *)
(***************************************************************************)
\* record a carries every field of record b with b's value
Carries(a, b) == \A k \in DOMAIN b : k \in DOMAIN a /\ a[k] = b[k]

\* the records of out are records of inp, in inp's relative order
InOrderOf(out, inp) ==
    \E f \in [1..Len(out) -> 1..Len(inp)] :
        /\ \A i \in 1..Len(out) : Carries(out[i], inp[f[i]])
        /\ \A i, j \in 1..Len(out) : i < j => f[i] < f[j]

\* C23: whatever the collaborator answers, the written summary batch is an
\* array whose records are records of the filtered, deduplicated input, in
\* the relative order of the input
C23_WrittenIsOrderedSubset ==
    summaryFile.exists =>
        /\ summaryFile.data.kind = "arr"
        /\ InOrderOf(summaryFile.data.items, unique_articles)

(***************************************************************************)
(* Source selection of improve_prompt.                                     *)
(***************************************************************************)
\* the working set has been chosen and no file has been moved yet
Loaded == updPc \in {"extract", "rewrite", "write", "archive"}

\* the records of the files, one file after the other
RECURSIVE Concatenation(_)
Concatenation(files) ==
    IF files = <<>> THEN <<>>
    ELSE Concatenation(SubSeq(files, 1, Len(files) - 1)) \o files[Len(files)].data

\* the records of the readable .json files directly inside the directory
DirRecords ==
    Concatenation(SelectSeq(dailyFiles, LAMBDA f : f.json /\ f.ok))

\* C24: with a directory given the working set is the concatenation of the
\* records of its JSON files, or the single file when that concatenation is
\* empty; with no directory given it is the single file
C24_SourceSelection ==
    Loaded =>
        /\ (daily_dir # "None" /\ DirRecords # <<>>)
              => (updSource = "dir" /\ updArticles = DirRecords)
        /\ (daily_dir # "None" /\ DirRecords = <<>>)
              => (updSource = "file" /\ updArticles = generatedFile.data)
        /\ daily_dir = "None"
              => (updSource = "file" /\ updArticles = generatedFile.data)

\* two files with one record each
C24_Witness ==
    /\ updPc = "extract"
    /\ daily_dir = "dir"
    /\ Len(dailyFiles) = 2
    /\ updSource = "dir"
    /\ updArticles = <<Rec6, RecX>>

(***************************************************************************)
(* The archival loop of improve_prompt.                                    *)
(***************************************************************************)
\* the archival loop has run to its end
Archived == updPc = "done" /\ daily_dir = "dir" /\ updResult = "True"

\* the k-th smallest position of a set of positions
KthOf(S, k) == CHOOSE i \in S : Cardinality({j \in S : j < i}) = k - 1

\* the positions of the listing whose move was tried and did not fail
NotFailed == {i \in 1..Len(archive_listing) : archive_listing[i].json} \ renameFailed

\* C25: after the archival loop every file whose move did not fail is in the
\* processed directory, whichever moves failed, and the instruction file
\* holds the new text
C25_FailedMoveIsContained ==
    Archived =>
        /\ Len(processedFiles) = Cardinality(NotFailed)
        /\ \A k \in 1..Len(processedFiles) :
              processedFiles[k] = archive_listing[KthOf(NotFailed, k)]
        /\ promptFile = PromptOf(improved_prompt)
        /\ promptWrites = 1

\* the move of the first of two files failed and the second was moved
C25_Witness ==
    /\ Archived
    /\ Len(archive_listing) = 2
    /\ renameFailed = {1}
    /\ processedFiles = <<archive_listing[2]>>
    /\ dailyFiles = <<archive_listing[1]>>
    /\ promptFile # promptBefore

(***************************************************************************)
(* Repeated and framed review submissions.                                 *)
(***************************************************************************)
\* the forms whose submission is stored
Stored(form) == form.action = "agree" \/ FormInt(form).ok

\* C26: on every stored submission, submitting the same form for the same
\* index again would leave the file as it is, and the file is the one the
\* submission gives after any earlier decision for that index
C26_ReviewIdempotent ==
    [][ LET req == revLast'
        IN  (req.kind = "post" /\ revPc' = "request") =>
                /\ Saved(scoredFile'.data, req.index, req.form) = scoredFile'.data
                /\ \A g \in {f \in Forms : Stored(f)} :
                      Saved(Saved(scoredFile.data, req.index, g),
                            req.index, req.form) = scoredFile'.data ]_vars

\* an agree on the record that carried the decision 3, t0
C26_Witness ==
    /\ revLast = Request("post", 0, AgreeForm)
    /\ revPc = "request"
    /\ scoredFile.data[1].tweet_worthiness = 5
    /\ scoredFile.data[1].user_score = 5
    /\ scoredFile.data[1].user_reasoning = "ok"

\* the two fields a submission writes
ReviewKeys == {"user_score", "user_reasoning"}

\* C27: a stored submission on index i keeps the length and the order of the
\* batch, every other record, and every other field of record i; a
\* submission whose score is no integer leaves the file as it is
C27_ReviewFrame ==
    [][ LET req == revLast'
            old == scoredFile.data
            new == scoredFile'.data
        IN  /\ (req.kind = "post" /\ revPc' = "request") =>
                  /\ Len(new) = Len(old)
                  /\ \A k \in 1..Len(old) : k # req.index + 1 => new[k] = old[k]
                  /\ DOMAIN new[req.index + 1]
                        = DOMAIN old[req.index + 1] \cup ReviewKeys
                  /\ \A key \in DOMAIN old[req.index + 1] \ ReviewKeys :
                        new[req.index + 1][key] = old[req.index + 1][key]
            /\ (req.kind = "post" /\ revPc' = "error") => scoredFile' = scoredFile
      ]_vars

\* an override with 7 on the second of two records, the first not reviewed
C27_Witness ==
    /\ revLast = Request("post", 1,
                    [action |-> "override", user_score |-> <<"7">>,
                     user_reasoning |-> "t1"])
    /\ revPc = "request"
    /\ Len(scoredFile.data) = 2
    /\ "user_score" \notin DOMAIN scoredFile.data[1]
    /\ scoredFile.data[2].user_score = 7
    /\ scoredFile.data[2].tweet_worthiness = 0
    /\ scoredFile.data[2].summary = FallbackSummary

(***************************************************************************)
(* The result of improve_prompt.                                           *)
(***************************************************************************)
\* C28: improve_prompt returns True exactly when it has overwritten the
\* instruction file during the run
C28_ResultMatchesRewrite ==
    updPc = "done" => (updResult = "True" <=> promptWrites = 1)

====
